---- MODULE Spec2Model ----
(***************************************************************************)
(* Model of the Nybbler virtual pet (src/src/main.rs): the Nybbler struct, *)
(* Nybbler::new, update, update_mood, feed, play, sleep and heal, the save *)
(* files (save, load, save_exists, delete_all_nybblers) and main's game    *)
(* loop.                                                                   *)
(*                                                                         *)
(* Time is counted in milliseconds relative to the moment the session      *)
(* obtained its pet (Local::now() at creation, or the timestamp stored in  *)
(* the save that was loaded).                                              *)
(***************************************************************************)
EXTENDS Integers, Sequences, FiniteSets

VARIABLES
    hunger,        \* Nybbler.hunger: u8
    happiness,     \* Nybbler.happiness: u8
    energy,        \* Nybbler.energy: u8
    health,        \* Nybbler.health: u8
    age,           \* Nybbler.age: u16
    last_updated,  \* Nybbler.last_updated, in ms
    mood,          \* Nybbler.mood: NybblerMood
    origin,        \* how main obtained the pet: "new" or "loaded"
    lastOp,        \* the method that acted last ("new"/"load" before any call)
    elapsed,       \* now - last_updated (ms) seen by the last update call
    calls,         \* number of method calls made on the pet so far
    run,           \* the current run of consecutive update calls
    name,          \* Nybbler.name, a sequence of characters
    character_type,\* Nybbler.character_type
    files,         \* the save directory: file stem -> content of <stem>.json
    dataDir,       \* whether dirs::data_dir() resolves
    dirExists,     \* whether <data_dir>/nybbler exists
    pc,            \* position of main ("api": no main, calls in any order)
    typed,         \* the name entered at main's prompt
    ret,           \* result of the last save / load / exists / delete_all
    fault,         \* the I/O failure met by that call ("ok": none)
    iter           \* steps main has done in the current loop iteration

petVars == <<hunger, happiness, energy, health, age, last_updated, mood,
             name, character_type>>

histVars == <<origin, lastOp, elapsed, calls, run>>

envVars == <<files, dataDir, dirExists, pc, typed, ret, fault, iter>>

vars == <<hunger, happiness, energy, health, age, last_updated, mood,
          origin, lastOp, elapsed, calls, run, name, character_type,
          files, dataDir, dirExists, pc, typed, ret, fault, iter>>

----------------------------------------------------------------------------
(* Bounds of the exploration *)

\* method calls explored on a newly created pet
MaxCalls == 5

\* method calls explored on a pet loaded from a save
MaxLoadedCalls == 2

\* save / load / exists / delete_all calls explored on the save directory
MaxStoreCalls == 3

\* update and action calls explored in one session of the game loop
MaxLoopCalls == 2

(* Program constants *)

\* 3600.0 seconds per hour in hours_passed
SecsPerHour == 3600

\* 24.0 hours per day of age
HoursPerDay == 24

\* upper limit of every stat (the .min(100) of feed/play/sleep, heal's 100)
MaxStat == 100

\* flat health penalty of update
HealthPenalty == 5

\* hunger < 20 || happiness < 20 triggers the penalty
PenaltyBelow == 20

MsPerHour == SecsPerHour * 1000

MsPerDay == HoursPerDay * MsPerHour

\* now - last_updated (ms) offered to update: a clock set back by a day or by
\* an hour, no time at all, half a second, half an hour, one hour, 12 hours,
\* a day.
ElapsedChoices ==
    {0 - MsPerDay, 0 - MsPerHour, 0, 500, MsPerHour \div 2, MsPerHour,
     12 * MsPerHour, MsPerDay}

Moods == {"Happy", "Neutral", "Sad", "Sick", "Sleeping", "Excited", "Playful"}

----------------------------------------------------------------------------
(* Integer helpers of the Rust code *)

Min(a, b) == IF a <= b THEN a ELSE b

\* u8::saturating_sub
SaturatingSub(a, b) == IF a >= b THEN a - b ELSE 0

\* the outcome of an addition that panics ("attempt to add with overflow");
\* it is below every number, so that Min(Panic, x) is Panic: the panic comes
\* before the .min(100) that follows the addition
Panic == 0 - 1

\* `+` on an unsigned type of the given width, as the set of its outcomes:
\* a sum that does not fit panics in a build with overflow checks (the dev
\* profile) and wraps in one without (the release profile)
CheckedAdd(a, b, width) ==
    IF a + b < width THEN {a + b} ELSE {Panic, (a + b) % width}

\* u8 `+`
U8Add(a, b) == CheckedAdd(a, b, 256)

\* u16 `+=`
U16Add(a, b) == CheckedAdd(a, b, 65536)

\* .min(m) on each outcome of an addition
MinOf(sums, m) == {Min(x, m) : x \in sums}

\* TimeDelta::num_seconds: whole seconds, truncated toward zero
NumSeconds(ms) == IF ms >= 0 THEN ms \div 1000 ELSE 0 - ((0 - ms) \div 1000)

\* Decrease without the .min(cap): decay linear in the elapsed time
DecreaseUncapped(rate, cap, secs) ==
    IF secs < 0 THEN 0 ELSE Min((rate * secs) \div SecsPerHour, 255)

\* Decrease rounding up instead of truncating
DecreaseRoundUp(rate, cap, secs) ==
    IF secs < 0 THEN 0
    ELSE IF rate * secs >= cap * SecsPerHour THEN cap
    ELSE (rate * secs + SecsPerHour - 1) \div SecsPerHour

\* Decrease computed from the magnitude of the elapsed time
DecreaseMagnitude(rate, cap, secs) ==
    LET m == IF secs < 0 THEN 0 - secs ELSE secs IN
    IF rate * m >= cap * SecsPerHour THEN cap
    ELSE (rate * m) \div SecsPerHour

\* (rate * hours_passed).min(cap) as u8, with hours_passed = secs / 3600.0:
\* the cast truncates toward zero and saturates negative values to 0.
Decrease(rate, cap, secs) ==
    IF secs < 0 THEN 0
    ELSE IF rate * secs >= cap * SecsPerHour THEN cap
    ELSE (rate * secs) \div SecsPerHour

HungerDecrease(secs) == Decrease(5, 5, secs)

HappinessDecrease(secs) == Decrease(3, 3, secs)

EnergyDecrease(secs) == Decrease(2, 2, secs)

\* (hours_passed / 24.0) as u16: truncating, saturating cast
AgeIncrease(secs) ==
    IF secs < 0 THEN 0
    ELSE Min(secs \div (SecsPerHour * HoursPerDay), 65535)

\* the penalty with && in place of ||
HealthAfterUpdateBoth(hu, ha, he) ==
    IF hu < PenaltyBelow /\ ha < PenaltyBelow
    THEN SaturatingSub(he, HealthPenalty)
    ELSE he

\* health after update's penalty, given the already decayed hunger/happiness
HealthAfterUpdate(hu, ha, he) ==
    IF hu < PenaltyBelow \/ ha < PenaltyBelow
    THEN SaturatingSub(he, HealthPenalty)
    ELSE he

\* update_mood with the first two branches in the wrong order
UpdateMoodSleepFirst(hu, ha, en, he) ==
    IF en < 20 THEN "Sleeping"
    ELSE IF he < 30 THEN "Sick"
    ELSE IF hu < 30 \/ ha < 30 THEN "Sad"
    ELSE IF hu > 70 /\ ha > 70 /\ en > 70 THEN "Excited"
    ELSE IF hu > 70 /\ ha > 70 THEN "Happy"
    ELSE IF ha > 80 THEN "Playful"
    ELSE "Neutral"

\* Nybbler::update_mood: the if / else-if chain, first match wins
UpdateMood(hu, ha, en, he) ==
    IF he < 30 THEN "Sick"
    ELSE IF en < 20 THEN "Sleeping"
    ELSE IF hu < 30 \/ ha < 30 THEN "Sad"
    ELSE IF hu > 70 /\ ha > 70 /\ en > 70 THEN "Excited"
    ELSE IF hu > 70 /\ ha > 70 THEN "Happy"
    ELSE IF ha > 80 THEN "Playful"
    ELSE "Neutral"

\* feed without the .min(100) on hunger
FeedHungerUncapped(h) == U8Add(h, 30)

\* feed: self.hunger = (self.hunger + 30).min(100)
FeedHunger(h) == MinOf(U8Add(h, 30), MaxStat)

\* feed without the .min(100) on energy
FeedEnergyUncapped(e) == U8Add(e, 5)

\* feed: self.energy = (self.energy + 5).min(100)
FeedEnergy(e) == MinOf(U8Add(e, 5), MaxStat)

\* play: self.happiness = (self.happiness + 20).min(100)
PlayHappiness(h) == MinOf(U8Add(h, 20), MaxStat)

\* play: self.hunger = self.hunger.saturating_sub(10)
PlayHunger(h) == SaturatingSub(h, 10)

\* play with a wrapping instead of a saturating subtraction
PlayEnergyWrapping(e) == (e + 256 - 15) % 256

\* play: self.energy = self.energy.saturating_sub(15)
PlayEnergy(e) == SaturatingSub(e, 15)

\* sleep: self.happiness = (self.happiness + 5).min(100)
SleepHappiness(h) == MinOf(U8Add(h, 5), MaxStat)

----------------------------------------------------------------------------
(* Initial states *)

\* the run of consecutive update calls starting at stats (hu, ha, en)
NewRun(hu, ha, en) ==
    [hunger |-> hu, happiness |-> ha, energy |-> en,
     span |-> 0, calls |-> 0, fwd |-> TRUE]

\* the field values Nybbler::new writes
NewStats ==
    [hunger |-> 50, happiness |-> 50, energy |-> 100, health |-> 100,
     age |-> 0, mood |-> "Happy"]

\* Nybbler::new
InitNew ==
    /\ hunger = NewStats.hunger
    /\ happiness = NewStats.happiness
    /\ energy = NewStats.energy
    /\ health = NewStats.health
    /\ age = NewStats.age
    /\ last_updated = 0
    /\ mood = NewStats.mood
    /\ origin = "new"
    /\ lastOp = "new"
    /\ elapsed = 0
    /\ calls = 0
    /\ run = NewRun(50, 50, 100)

\* stats sampled for a loaded pet: the thresholds of update_mood and of the
\* health penalty, the clamps, and values in between
HungerSamples == {0, 4, 15, 19, 20, 29, 30, 50, 70, 71, 100}

HappinessSamples == {0, 2, 15, 19, 20, 29, 30, 50, 70, 71, 80, 81, 100}

EnergySamples == {0, 1, 19, 20, 70, 71, 100}

HealthSamples == {5, 25, 30, 100}

\* ages of a loaded pet: none, a few days, and the largest a u16 holds, from
\* which `self.age += ...` overflows on the next whole day
AgeSamples == {0, 3, 65535}

\* Nybbler::load of a save written by the game loop: a save is written only
\* after update and the is_alive check of that iteration, so health > 0, the
\* penalty has been applied and mood was recomputed from the saved stats.
InitLoaded ==
    /\ hunger \in HungerSamples
    /\ happiness \in HappinessSamples
    /\ energy \in EnergySamples
    /\ health \in HealthSamples
    /\ (hunger < PenaltyBelow \/ happiness < PenaltyBelow)
          => health <= MaxStat - HealthPenalty
    /\ age \in AgeSamples
    /\ last_updated = 0
    /\ mood = UpdateMood(hunger, happiness, energy, health)
    /\ origin = "loaded"
    /\ lastOp = "load"
    /\ elapsed = 0
    /\ calls = 0
    /\ run = NewRun(hunger, happiness, energy)

----------------------------------------------------------------------------
(* The save files *)

\* pet names entered or stored: three that differ only in case, one other
Names == {<<"R", "e", "x">>, <<"r", "e", "x">>, <<"R", "E", "X">>, <<"B", "o">>}

\* char::to_lowercase on the letters used
LowerChar(c) ==
    CASE c = "R" -> "r"
      [] c = "E" -> "e"
      [] c = "X" -> "x"
      [] c = "B" -> "b"
      [] OTHER -> c

\* String::to_lowercase
ToLowercase(n) == [i \in 1..Len(n) |-> LowerChar(n[i])]

\* the save file named by the name as entered
SavePathAsEntered(n) == n

\* the stem of the save file of a pet named n: format!("{}.json", n.to_lowercase())
SavePath(n) == ToLowercase(n)

\* the stems of the .json files the save directory can hold
FileStems == Names \cup {ToLowercase(n) : n \in Names}

\* no file of that stem
NoFile == [kind |-> "nofile"]

\* a file whose content serde_json cannot decode as a Nybbler
Corrupt == [kind |-> "corrupt"]

\* a field missing from a save written before the field existed
Absent == "absent"

\* enum CharacterType
CharacterTypes == {"Blob", "Square", "Ghost", "Cat", "Robo"}

\* the offsets of local time from UTC, in minutes, met when saving
LocalOffsets == {0 - 300, 60}

\* to_rfc3339 printing whole seconds only
ToRfc3339Seconds(t, off) ==
    [seconds |-> (t + off * 60000) \div 1000, millis |-> 0, offset |-> off]

\* DateTime::to_rfc3339 of the instant t (ms) at local offset off (minutes):
\* the local date and time to the second, the fraction, and the offset
ToRfc3339(t, off) ==
    [seconds |-> (t + off * 60000) \div 1000,
     millis |-> (t + off * 60000) % 1000,
     offset |-> off]

\* DateTime::parse_from_rfc3339(..).with_timezone(&Local): the instant (ms)
ParseRfc3339(x) == x.seconds * 1000 + x.millis - x.offset * 60000

\* the Nybbler in memory
ThePet ==
    [name |-> name, hunger |-> hunger, happiness |-> happiness,
     energy |-> energy, health |-> health, age |-> age,
     last_updated |-> last_updated, mood |-> mood,
     character_type |-> character_type]

\* serde_json::to_string_pretty(self): every field under its name, the
\* timestamp through chrono_serde::serialize
ToJson(p, off) ==
    [kind |-> "json", name |-> p.name, hunger |-> p.hunger,
     happiness |-> p.happiness, energy |-> p.energy, health |-> p.health,
     age |-> p.age, last_updated |-> ToRfc3339(p.last_updated, off),
     mood |-> p.mood, character_type |-> p.character_type]

\* serde_json::from_str: the timestamp through chrono_serde::deserialize,
\* a missing character_type replaced by CharacterType::random() = c
FromJson(j, c) ==
    [name |-> j.name, hunger |-> j.hunger, happiness |-> j.happiness,
     energy |-> j.energy, health |-> j.health, age |-> j.age,
     last_updated |-> ParseRfc3339(j.last_updated), mood |-> j.mood,
     character_type |-> IF j.character_type = Absent THEN c
                        ELSE j.character_type]

\* the values CharacterType::random() can supply when decoding content f
RandomDefaults(f) ==
    IF f.kind = "json" /\ f.character_type = Absent
    THEN CharacterTypes
    ELSE {"Blob"}

\* get_save_directory: fails when data_dir() is None or create_dir_all fails
\* (io = "mkdir"); otherwise the directory exists afterwards
DirOk(io) == dataDir /\ (dirExists \/ io # "mkdir")

\* the points where a call on the save directory can fail
IoOutcomes == {"ok", "mkdir", "io"}

\* save can fail in one more place: fs::write has created or truncated the
\* file and the write itself fails
SaveOutcomes == IoOutcomes \cup {"write"}

\* delete_all_nybblers asks save_dir.exists() once more: Path::exists is
\* false as well when the metadata of the directory cannot be read
DeleteOutcomes == IoOutcomes \cup {"stat"}

\* an outcome that can happen now: mkdir is only tried on a missing
\* directory, and a file is only written once the directory is there
CanHappen(io) ==
    /\ io = "mkdir" => (dataDir /\ ~dirExists)
    /\ io = "write" => dataDir
    /\ io = "stat" => dataDir

\* Nybbler::save_exists(n): false as well when get_save_directory fails
\* or Path::exists cannot read the file's metadata
SaveExists(n, io) ==
    DirOk(io) /\ io = "ok" /\ files[SavePath(n)].kind # "nofile"

\* Nybbler::load(n): the pet read, or an error when the directory, the read
\* or the decoding fails
LoadResult(n, c, io) ==
    LET f == files[SavePath(n)] IN
    IF DirOk(io) /\ io = "ok" /\ f.kind = "json"
    THEN [ok |-> TRUE, pet |-> FromJson(f, c)]
    ELSE [ok |-> FALSE]

\* results of the calls: Ok with a value (the count of delete_all, 1 or 0
\* for the bool of save_exists, 0 otherwise), or an io::Error
Ok(v) == [ok |-> TRUE, value |-> v]

Err == [ok |-> FALSE, value |-> 0]

\* the effect of Nybbler::save on the directory, and its result
SaveFiles(off, io) ==
    /\ IF DirOk(io) /\ io = "ok"
       THEN /\ files' = [files EXCEPT ![SavePath(name)] = ToJson(ThePet, off)]
            /\ ret' = Ok(0)
       ELSE IF DirOk(io) /\ io = "write"
       THEN /\ files' = [files EXCEPT ![SavePath(name)] = Corrupt]
            /\ ret' = Err
       ELSE /\ files' = files
            /\ ret' = Err
    /\ dirExists' = (dirExists \/ DirOk(io))

\* the .json files present
Present == {f \in FileStems : files[f].kind # "nofile"}

\* a pet in memory takes the field values of p
SetPet(p) ==
    /\ name' = p.name
    /\ hunger' = p.hunger
    /\ happiness' = p.happiness
    /\ energy' = p.energy
    /\ health' = p.health
    /\ age' = p.age
    /\ last_updated' = p.last_updated
    /\ mood' = p.mood
    /\ character_type' = p.character_type

\* before main has created or loaded a pet, the variables of the pet hold
\* these values, which nothing reads
SetPetInit ==
    /\ name = <<>>
    /\ hunger = 0
    /\ happiness = 0
    /\ energy = 0
    /\ health = 0
    /\ age = 0
    /\ last_updated = 0
    /\ mood = "Neutral"
    /\ character_type = "Blob"

\* Nybbler::new(n) at instant t with CharacterType::random() = c
NewNybbler(n, t, c) ==
    [name |-> n, hunger |-> NewStats.hunger, happiness |-> NewStats.happiness,
     energy |-> NewStats.energy, health |-> NewStats.health,
     age |-> NewStats.age, last_updated |-> t, mood |-> NewStats.mood,
     character_type |-> c]

\* a save written by the game loop in an earlier session
SavedPet(n, hu, ha, en, he, ag, t, c, off) ==
    ToJson([name |-> n, hunger |-> hu, happiness |-> ha, energy |-> en,
            health |-> he, age |-> ag, last_updated |-> t,
            mood |-> UpdateMood(hu, ha, en, he), character_type |-> c], off)

\* what rex.json can hold at the start: nothing, undecodable content, a
\* starving pet about to die, or a save from before character_type existed
RexFiles ==
    {NoFile, Corrupt,
     SavedPet(<<"R", "e", "x">>, 15, 50, 70, 5, 3, 250, "Cat", 60),
     SavedPet(<<"r", "e", "x">>, 71, 81, 100, 100, 0, 1000, Absent, 0 - 300)}

\* what bo.json can hold at the start: nothing, or a pet that an hour of
\* decay brings under the happiness threshold of the health penalty
BoFiles == {NoFile, SavedPet(<<"B", "o">>, 50, 21, 19, 30, 1, 0, "Ghost", 60)}

\* the save directory at the start
InitFiles ==
    /\ dataDir \in BOOLEAN
    /\ \E r \in RexFiles, b \in BoFiles :
          files = [f \in FileStems |->
                     IF f = <<"r", "e", "x">> THEN r
                     ELSE IF f = <<"b", "o">> THEN b
                     ELSE NoFile]
    /\ dataDir = FALSE => Present = {}
    /\ dirExists \in BOOLEAN
    /\ Present # {} => dirExists
    /\ dataDir = FALSE => dirExists = FALSE

----------------------------------------------------------------------------

\* the pet's methods called directly, in any order, on a pet named Rex:
\* nothing is saved or loaded and main is not running
ApiEnv ==
    /\ name = <<"R", "e", "x">>
    /\ character_type = "Blob"
    /\ files = [f \in FileStems |-> NoFile]
    /\ dataDir = TRUE
    /\ dirExists = FALSE
    /\ pc = "api"
    /\ typed = name
    /\ ret = Ok(0)
    /\ fault = "ok"
    /\ iter = <<>>

Init == (InitNew \/ InitLoaded) /\ ApiEnv

----------------------------------------------------------------------------
(* Operations *)

CanCall ==
    /\ lastOp # "panic"
    /\ calls < (IF pc = "store" THEN MaxStoreCalls
                ELSE IF pc # "api" THEN MaxLoopCalls
                ELSE IF origin = "new" THEN MaxCalls
                ELSE MaxLoadedCalls)

\* a method panics in an addition: the process is gone, and with it the pet
\* in memory, whose fields are not read again
Panics ==
    /\ lastOp' = "panic"
    /\ calls' = calls + 1
    /\ UNCHANGED <<petVars, origin, elapsed, run>>

\* bookkeeping of an action method (feed, play, sleep, heal)
Acted(op) ==
    /\ lastOp' = op
    /\ elapsed' = 0
    /\ calls' = calls + 1
    /\ run' = NewRun(hunger', happiness', energy')
    /\ UNCHANGED <<origin, age, last_updated, name, character_type>>

\* update with the health penalty decided before the decay is subtracted
UpdateAtPenaltyFirst(d) ==
    LET secs == NumSeconds(d) IN
    \E ag \in U16Add(age, AgeIncrease(secs)) :
    IF ag = Panic
    THEN Panics
    ELSE
        /\ health' = HealthAfterUpdate(hunger, happiness, health)
        /\ hunger' = SaturatingSub(hunger, HungerDecrease(secs))
        /\ happiness' = SaturatingSub(happiness, HappinessDecrease(secs))
        /\ energy' = SaturatingSub(energy, EnergyDecrease(secs))
        /\ age' = ag
        /\ mood' = UpdateMood(hunger', happiness', energy', health')
        /\ last_updated' = last_updated + d
        /\ lastOp' = "update"
        /\ elapsed' = d
        /\ calls' = calls + 1
        /\ run' = [run EXCEPT !.span = @ + d, !.calls = @ + 1,
                              !.fwd = @ /\ d >= 0]
        /\ UNCHANGED <<origin, name, character_type>>

\* Nybbler::update with now = last_updated + d
UpdateAt(d) ==
    LET secs == NumSeconds(d) IN
    \E ag \in U16Add(age, AgeIncrease(secs)) :
    IF ag = Panic
    THEN Panics
    ELSE
        /\ hunger' = SaturatingSub(hunger, HungerDecrease(secs))
        /\ happiness' = SaturatingSub(happiness, HappinessDecrease(secs))
        /\ energy' = SaturatingSub(energy, EnergyDecrease(secs))
        /\ age' = ag
        /\ health' = HealthAfterUpdate(hunger', happiness', health)
        /\ mood' = UpdateMood(hunger', happiness', energy', health')
        /\ last_updated' = last_updated + d
        /\ lastOp' = "update"
        /\ elapsed' = d
        /\ calls' = calls + 1
        /\ run' = [run EXCEPT !.span = @ + d, !.calls = @ + 1,
                              !.fwd = @ /\ d >= 0]
        /\ UNCHANGED <<origin, name, character_type>>

Update ==
    /\ CanCall
    /\ \E d \in ElapsedChoices : UpdateAt(d)

\* Nybbler::feed
Feed ==
    /\ CanCall
    /\ \E hu \in FeedHunger(hunger), en \in FeedEnergy(energy) :
       IF Panic \in {hu, en}
       THEN Panics
       ELSE
           /\ hunger' = hu
           /\ energy' = en
           /\ mood' = UpdateMood(hunger', happiness, energy', health)
           /\ UNCHANGED <<happiness, health>>
           /\ Acted("feed")

\* Nybbler::play
Play ==
    /\ CanCall
    /\ \E ha \in PlayHappiness(happiness) :
       IF ha = Panic
       THEN Panics
       ELSE
           /\ happiness' = ha
           /\ hunger' = PlayHunger(hunger)
           /\ energy' = PlayEnergy(energy)
           /\ mood' = UpdateMood(hunger', happiness', energy', health)
           /\ UNCHANGED health
           /\ Acted("play")

\* sleep restoring only 50 energy
SleepRestsHalf ==
    /\ CanCall
    /\ \E en \in MinOf(U8Add(energy, 50), MaxStat),
          ha \in SleepHappiness(happiness) :
       IF Panic \in {en, ha}
       THEN Panics
       ELSE
           /\ energy' = en
           /\ happiness' = ha
           /\ mood' = UpdateMood(hunger, happiness', energy', health)
           /\ UNCHANGED <<hunger, health>>
           /\ Acted("sleep")

\* Nybbler::sleep
Sleep ==
    /\ CanCall
    /\ \E ha \in SleepHappiness(happiness) :
       IF ha = Panic
       THEN Panics
       ELSE
           /\ energy' = MaxStat
           /\ happiness' = ha
           /\ mood' = UpdateMood(hunger, happiness', energy', health)
           /\ UNCHANGED <<hunger, health>>
           /\ Acted("sleep")

\* heal without its call of update_mood
HealStaleMood ==
    /\ CanCall
    /\ health' = MaxStat
    /\ UNCHANGED <<hunger, happiness, energy, mood>>
    /\ Acted("heal")

\* heal adding 20 health instead of setting it to 100
HealByTwenty ==
    /\ CanCall
    /\ \E he \in MinOf(U8Add(health, 20), MaxStat) :
       IF he = Panic
       THEN Panics
       ELSE
           /\ health' = he
           /\ mood' = UpdateMood(hunger, happiness, energy, health')
           /\ UNCHANGED <<hunger, happiness, energy>>
           /\ Acted("heal")

\* Nybbler::heal
Heal ==
    /\ CanCall
    /\ health' = MaxStat
    /\ mood' = UpdateMood(hunger, happiness, energy, health')
    /\ UNCHANGED <<hunger, happiness, energy>>
    /\ Acted("heal")

\* the methods called directly: the files and main are left alone
ApiUpdate == Update /\ UNCHANGED envVars

ApiFeed == Feed /\ UNCHANGED envVars

ApiPlay == Play /\ UNCHANGED envVars

ApiSleep == Sleep /\ UNCHANGED envVars

ApiHeal == Heal /\ UNCHANGED envVars

Next == ApiUpdate \/ ApiFeed \/ ApiPlay \/ ApiSleep \/ ApiHeal

Spec == Init /\ [][Next]_vars

----------------------------------------------------------------------------
(* The save directory: save, load, save_exists and delete_all_nybblers called
   in any order on a newly created pet *)

\* Local::now() at the pet's creation, in ms: on a whole second and not
CreationTimes == {0, 1234}

InitStore ==
    /\ name \in Names
    /\ character_type \in CharacterTypes
    /\ last_updated \in CreationTimes
    /\ hunger = NewStats.hunger
    /\ happiness = NewStats.happiness
    /\ energy = NewStats.energy
    /\ health = NewStats.health
    /\ age = NewStats.age
    /\ mood = NewStats.mood
    /\ origin = "new"
    /\ lastOp = "new"
    /\ elapsed = 0
    /\ calls = 0
    /\ run = NewRun(hunger, happiness, energy)
    /\ InitFiles
    /\ pc = "store"
    /\ typed = name
    /\ ret = Ok(0)
    /\ fault = "ok"
    /\ iter = <<>>

\* bookkeeping of a call on the save directory with name argument m
StoreCalled(op, m) ==
    /\ pc = "store"
    /\ CanCall
    /\ lastOp' = op
    /\ calls' = calls + 1
    /\ typed' = m
    /\ UNCHANGED <<elapsed, dataDir, pc, iter>>

\* pet.save()
StoreSave ==
    /\ StoreCalled("save", name)
    /\ \E off \in LocalOffsets, io \in SaveOutcomes :
          CanHappen(io) /\ SaveFiles(off, io) /\ fault' = io
    /\ UNCHANGED <<petVars, origin, run>>

\* pet = Nybbler::load(m)?  (the pet in memory is kept on an error)
StoreLoad ==
    \E m \in Names, io \in IoOutcomes :
        \E c \in RandomDefaults(files[SavePath(m)]) :
            LET r == LoadResult(m, c, io) IN
            /\ CanHappen(io)
            /\ StoreCalled("load", m)
            /\ IF r.ok
               THEN /\ SetPet(r.pet)
                    /\ origin' = "loaded"
                    /\ run' = NewRun(r.pet.hunger, r.pet.happiness, r.pet.energy)
                    /\ ret' = Ok(0)
               ELSE /\ UNCHANGED <<petVars, origin, run>>
                    /\ ret' = Err
            /\ dirExists' = (dirExists \/ DirOk(io))
            /\ fault' = io
            /\ UNCHANGED files

\* Nybbler::save_exists(m)
StoreExists ==
    \E m \in Names, io \in IoOutcomes :
        /\ CanHappen(io)
        /\ StoreCalled("exists", m)
        /\ ret' = Ok(IF SaveExists(m, io) THEN 1 ELSE 0)
        /\ dirExists' = (dirExists \/ DirOk(io))
        /\ fault' = io
        /\ UNCHANGED <<petVars, origin, run, files>>

\* delete_all_nybblers: every .json file removed and counted. When read_dir,
\* one of its entries or a remove_file fails, the files removed before it stay
\* removed and the call returns the error: none of them (read_dir itself
\* fails), some, or all of them (the iterator fails after the last save).
\* When the save_dir.exists() of the call itself is false, which it also is
\* for a directory whose metadata cannot be read, the call returns Ok(0) and
\* removes nothing.
DeleteAllFiles(io) ==
    IF DirOk(io) /\ io = "ok"
    THEN /\ files' = [f \in FileStems |-> NoFile]
         /\ ret' = Ok(Cardinality(Present))
    ELSE IF DirOk(io) /\ io = "stat"
    THEN /\ files' = files
         /\ ret' = Ok(0)
    ELSE IF DirOk(io)
    THEN /\ \E gone \in SUBSET Present :
              /\ files' = [f \in FileStems |->
                              IF f \in gone THEN NoFile ELSE files[f]]
         /\ ret' = Err
    ELSE /\ files' = files
         /\ ret' = Err

StoreDeleteAll ==
    /\ StoreCalled("delete_all", name)
    /\ \E io \in DeleteOutcomes :
          /\ CanHappen(io)
          /\ DeleteAllFiles(io)
          /\ dirExists' = (dirExists \/ DirOk(io))
          /\ fault' = io
    /\ UNCHANGED <<petVars, origin, run>>

NextStore == StoreSave \/ StoreLoad \/ StoreExists \/ StoreDeleteAll

SpecStore == InitStore /\ [][NextStore]_vars

-----------------------------------------------------------------------------
(* main: one run of the program *)

\* a call on the terminal (clear_screen, a prompt, clear_last_lines)
\* returns Ok or an io::Error
TermOutcomes == {"ok", "fail"}

\* println! / eprintln! prints, or panics when the stream cannot be written
PrintOutcomes == {"ok", "panic"}

\* a step of main that calls the terminal and prints: all went well, a call
\* returned an io::Error, or a print panicked
StepOutcomes == TermOutcomes \cup PrintOutcomes

\* where main ends on an outcome other than "ok": the error is returned by
\* `?` ("failed"), or the process dies of the panic ("panicked")
Stopped(t) == IF t = "fail" THEN "failed" ELSE "panicked"

\* program positions inside the game loop
LoopPcs == {"loop", "alive", "render", "select", "confirm"}

\* the process is started; no pet exists yet
InitMain ==
    /\ SetPetInit
    /\ origin = "none"
    /\ lastOp = "start"
    /\ elapsed = 0
    /\ calls = 0
    /\ run = NewRun(hunger, happiness, energy)
    /\ InitFiles
    /\ pc = "start"
    /\ typed = <<>>
    /\ ret = Ok(0)
    /\ fault = "ok"
    /\ iter = <<>>

\* what every step of main before the loop leaves alone
NoCall == UNCHANGED <<elapsed, calls, dataDir>>

\* the delete-all subcommand: println! the count and return, or eprintln!
\* the error and exit(1)
MainDeleteAll ==
    /\ pc = "start"
    /\ \E io \in DeleteOutcomes :
          /\ CanHappen(io)
          /\ DeleteAllFiles(io)
          /\ dirExists' = (dirExists \/ DirOk(io))
          /\ fault' = io
    /\ \E t \in PrintOutcomes :
          pc' = IF t = "panic" THEN "panicked"
                ELSE IF ret'.ok THEN "done" ELSE "exit1"
    /\ lastOp' = "delete_all"
    /\ NoCall
    /\ UNCHANGED <<petVars, origin, run, typed, iter>>

\* clear_screen()?, the welcome println!s and the name prompt's
\* interact_text()?
EnterName ==
    /\ pc = "start"
    /\ \E t \in StepOutcomes :
          IF t = "ok"
          THEN /\ \E n \in Names : typed' = n
               /\ pc' = "named"
          ELSE /\ typed' = typed
               /\ pc' = Stopped(t)
    /\ lastOp' = "name"
    /\ NoCall
    /\ UNCHANGED <<petVars, origin, run, files, dirExists, ret, fault, iter>>

\* a loop entered at the render, with the decay at the end of an iteration
EnterLoopAtRender ==
    /\ pc' = "render"
    /\ iter' = <<>>

\* the loop is entered at its top
EnterLoop ==
    /\ pc' = "loop"
    /\ iter' = <<>>

\* the time between two calls of update followed in main: the clock set
\* back an hour, no time, an hour, a day
LoopElapsed == {0 - MsPerHour, 0, MsPerHour, MsPerDay}

\* nybbler = Nybbler::new(name)
CreateNew ==
    /\ \E t \in CreationTimes, c \in CharacterTypes :
          SetPet(NewNybbler(typed, t, c))
    /\ origin' = "new"
    /\ run' = NewRun(hunger', happiness', energy')

\* save_exists(&name) is false: a new pet
StartNew ==
    /\ pc = "named"
    /\ \E io \in IoOutcomes :
          /\ CanHappen(io)
          /\ ~SaveExists(typed, io)
          /\ dirExists' = (dirExists \/ DirOk(io))
          /\ fault' = io
    /\ CreateNew
    /\ EnterLoop
    /\ lastOp' = "nosave"
    /\ NoCall
    /\ UNCHANGED <<files, typed, ret>>

\* a save exists and the load prompt is answered no (a println!, then the
\* new pet), or the prompt's interact()? fails
DeclineLoad ==
    /\ pc = "named"
    /\ SaveExists(typed, "ok")
    /\ \E t \in StepOutcomes :
          IF t = "ok"
          THEN /\ CreateNew
               /\ EnterLoop
          ELSE /\ pc' = Stopped(t)
               /\ UNCHANGED <<petVars, origin, run, iter>>
    /\ lastOp' = "decline"
    /\ NoCall
    /\ UNCHANGED <<files, dirExists, typed, ret, fault>>

\* the load prompt is answered yes and a failed load ends the program
\* with exit(1), as a failed delete-all does
LoadSaveOrAbort ==
    /\ pc = "named"
    /\ SaveExists(typed, "ok")
    /\ \E io \in IoOutcomes :
          \E c \in RandomDefaults(files[SavePath(typed)]) :
            LET r == LoadResult(typed, c, io) IN
            /\ CanHappen(io)
            /\ fault' = io
            /\ IF r.ok
               THEN /\ SetPet(r.pet)
                    /\ origin' = "loaded"
                    /\ run' = NewRun(r.pet.hunger, r.pet.happiness, r.pet.energy)
                    /\ ret' = Ok(0)
                    /\ EnterLoop
               ELSE /\ ret' = Err
                    /\ pc' = "exit1"
                    /\ UNCHANGED <<petVars, origin, run, iter>>
    /\ lastOp' = "load"
    /\ NoCall
    /\ UNCHANGED <<files, dirExists, typed>>

\* the load prompt is answered yes: the loaded pet, or a new one when
\* Nybbler::load returns an error; either way a println! comes first, and
\* its panic ends the process before a pet is bound
LoadSave ==
    /\ pc = "named"
    /\ SaveExists(typed, "ok")
    /\ \E io \in IoOutcomes, t \in PrintOutcomes :
          \E c \in RandomDefaults(files[SavePath(typed)]) :
            LET r == LoadResult(typed, c, io) IN
            /\ CanHappen(io)
            /\ fault' = io
            /\ ret' = IF r.ok THEN Ok(0) ELSE Err
            /\ IF t = "panic"
               THEN /\ pc' = "panicked"
                    /\ UNCHANGED <<petVars, origin, run, iter>>
               ELSE IF r.ok
               THEN /\ SetPet(r.pet)
                    /\ origin' = "loaded"
                    /\ run' = NewRun(r.pet.hunger, r.pet.happiness, r.pet.energy)
                    /\ EnterLoop
               ELSE /\ CreateNew
                    /\ EnterLoop
    /\ lastOp' = "load"
    /\ NoCall
    /\ UNCHANGED <<files, dirExists, typed>>

\* what a step of the loop leaves alone besides the pet
LoopEnv == UNCHANGED <<files, dataDir, dirExists, typed, ret, fault>>

\* nybbler.update() at the top of the loop
LoopUpdate ==
    /\ pc = "loop"
    /\ CanCall
    /\ \E d \in LoopElapsed : UpdateAt(d)
    /\ pc' = IF lastOp' = "panic" THEN "panicked" ELSE "alive"
    /\ iter' = Append(iter, "update")
    /\ LoopEnv

\* Nybbler::is_alive
IsAlive == health > 0

\* a step of main that calls no method of the pet
NoMethod == UNCHANGED <<petVars, origin, elapsed, calls, run>>

\* the liveness check in a loop that saves the pet that died
LoopAliveSavesDead ==
    /\ pc = "alive"
    /\ IF IsAlive
       THEN /\ pc' = "render"
            /\ iter' = Append(iter, "alive")
            /\ UNCHANGED <<files, dirExists, ret, fault>>
       ELSE /\ SaveFiles(0, "ok")
            /\ pc' = "dead"
            /\ UNCHANGED <<iter, fault>>
    /\ lastOp' = "alive"
    /\ NoMethod
    /\ UNCHANGED <<dataDir, typed>>

\* a loop that goes on to the render whatever is_alive returns
LoopAliveIgnoresDeath ==
    /\ pc = "alive"
    /\ pc' = "render"
    /\ iter' = Append(iter, "alive")
    /\ lastOp' = "alive"
    /\ NoMethod
    /\ LoopEnv

\* if !nybbler.is_alive() { clear_screen()?; println!s; break }
LoopAlive ==
    /\ pc = "alive"
    /\ IF IsAlive
       THEN /\ pc' = "render"
            /\ iter' = Append(iter, "alive")
       ELSE /\ \E t \in StepOutcomes :
                 pc' = IF t = "ok" THEN "dead" ELSE Stopped(t)
            /\ iter' = iter
    /\ lastOp' = "alive"
    /\ NoMethod
    /\ LoopEnv

\* display_stats(&nybbler, &term)?: clear_screen()? and println!s
LoopRender ==
    /\ pc = "render"
    /\ \E t \in StepOutcomes :
          IF t = "ok"
          THEN /\ pc' = "select"
               /\ iter' = Append(iter, "render")
          ELSE /\ pc' = Stopped(t)
               /\ iter' = iter
    /\ lastOp' = "render"
    /\ NoMethod
    /\ LoopEnv

\* the Select prompt's interact_on(&term)? returns an error
SelectFails ==
    /\ pc = "select"
    /\ pc' = "failed"
    /\ lastOp' = "select"
    /\ NoMethod
    /\ LoopEnv
    /\ UNCHANGED iter

\* after the method of selection 0..3: its println!s and its animation,
\* whose clear_last_lines()? can fail, then back to the top of the loop
Animated(op) ==
    /\ IF lastOp' = "panic"
       THEN /\ pc' = "panicked"
            /\ iter' = Append(iter, op)
       ELSE \E t \in StepOutcomes :
              IF t = "ok"
              THEN /\ pc' = "loop"
                   /\ iter' = <<>>
              ELSE /\ pc' = Stopped(t)
                   /\ iter' = Append(iter, op)
    /\ LoopEnv

LoopFeed == pc = "select" /\ Feed /\ Animated("feed")

LoopPlay == pc = "select" /\ Play /\ Animated("play")

LoopSleep == pc = "select" /\ Sleep /\ Animated("sleep")

LoopHeal == pc = "select" /\ Heal /\ Animated("heal")

\* selection 4
ChooseExit ==
    /\ pc = "select"
    /\ pc' = "confirm"
    /\ iter' = Append(iter, "exit")
    /\ lastOp' = "select"
    /\ NoMethod
    /\ LoopEnv

\* confirm_exit()? is answered no, or fails
StayOrFail ==
    /\ pc = "confirm"
    /\ \E t \in TermOutcomes :
          IF t = "ok"
          THEN /\ pc' = "loop"
               /\ iter' = <<>>
          ELSE /\ pc' = "failed"
               /\ iter' = iter
    /\ lastOp' = "stay"
    /\ NoMethod
    /\ LoopEnv

\* confirm_exit()? is answered yes: nybbler.save(), whose result is
\* printed, then clear_screen()?, the goodbye println!s and break
SaveAndExit ==
    /\ pc = "confirm"
    /\ \E off \in LocalOffsets, io \in SaveOutcomes :
          CanHappen(io) /\ SaveFiles(off, io) /\ fault' = io
    /\ \E t \in StepOutcomes :
          pc' = IF t = "ok" THEN "exited" ELSE Stopped(t)
    /\ lastOp' = "save"
    /\ NoMethod
    /\ UNCHANGED <<dataDir, typed, iter>>

NextMain ==
    \/ MainDeleteAll
    \/ EnterName
    \/ StartNew
    \/ DeclineLoad
    \/ LoadSave
    \/ LoopUpdate
    \/ LoopAlive
    \/ LoopRender
    \/ SelectFails
    \/ LoopFeed
    \/ LoopPlay
    \/ LoopSleep
    \/ LoopHeal
    \/ ChooseExit
    \/ StayOrFail
    \/ SaveAndExit

SpecMain == InitMain /\ [][NextMain]_vars

----------------------------------------------------------------------------
(* Properties *)

InRange(x) == x \in 0..MaxStat

IsUpdate == lastOp' = "update"

\* C1: from a newly created pet (and from a saved one), after any sequence
\* of update, feed, play, sleep and heal calls, hunger, happiness, energy
\* and health are all within [0,100].
StatsInRange ==
    /\ InRange(hunger)
    /\ InRange(happiness)
    /\ InRange(energy)
    /\ InRange(health)

\* C1 witness: a new pet fed until the cap of hunger and of energy is hit.
StatsInRangeWitness ==
    /\ origin = "new"
    /\ lastOp = "feed"
    /\ calls >= 2
    /\ hunger = MaxStat
    /\ energy = MaxStat

\* C2 as stated: in every reachable state, from creation on, the stored mood
\* is the classifier applied to the current stats.
MoodAlwaysMatchesStats == mood = UpdateMood(hunger, happiness, energy, health)

\* C2 amended: once update, feed, play, sleep or heal has been called (and for
\* a pet loaded from a save of the game loop) the stored mood is the
\* classifier applied to the current stats; a newly created pet holds Happy,
\* which is not the classifier's value (Neutral) for its default stats.
MoodMatchesStatsAfterFirstCall ==
    /\ (origin = "new" /\ calls = 0)
          => (mood = "Happy"
              /\ UpdateMood(hunger, happiness, energy, health) = "Neutral")
    /\ (origin = "loaded" \/ calls > 0)
          => mood = UpdateMood(hunger, happiness, energy, health)

\* C2 witness: heal has moved a pet out of Sick, the stored mood following.
MoodMatchesStatsWitness ==
    /\ lastOp = "heal"
    /\ health = MaxStat
    /\ hunger = 15
    /\ energy = 70
    /\ mood = "Sad"

\* C3 as stated: update with zero elapsed time leaves hunger, happiness,
\* energy, health, age and mood unchanged.
ZeroElapsedChangesNothing ==
    [][(IsUpdate /\ elapsed' = 0)
         => /\ hunger' = hunger
            /\ happiness' = happiness
            /\ energy' = energy
            /\ health' = health
            /\ age' = age
            /\ mood' = mood]_vars

\* C3 amended: update with zero elapsed time leaves hunger, happiness, energy
\* and age unchanged; health still loses 5 (saturating at 0) when hunger < 20
\* or happiness < 20 and is otherwise unchanged; mood is recomputed from the
\* resulting stats, so it changes for a newly created pet (Happy to Neutral)
\* and can change when health is lowered, and is unchanged otherwise.
ZeroElapsedKeepsDecayedStats ==
    [][(IsUpdate /\ elapsed' = 0)
         => /\ hunger' = hunger
            /\ happiness' = happiness
            /\ energy' = energy
            /\ age' = age
            /\ health' = (IF hunger < 20 \/ happiness < 20
                           THEN (IF health >= 5 THEN health - 5 ELSE 0)
                           ELSE health)
            /\ mood' = UpdateMood(hunger', happiness', energy', health')
            /\ (~(hunger < 20 \/ happiness < 20) /\ lastOp # "new")
                  => mood' = mood]_vars

\* C3 witness: a zero-elapsed update has just taken 5 health from a pet with
\* hunger 15 that a heal had brought to 100.
ZeroElapsedWitness ==
    /\ lastOp = "update"
    /\ elapsed = 0
    /\ calls = 2
    /\ hunger = 15
    /\ happiness = 50
    /\ health = 95

\* C4: one update with at least an hour elapsed takes exactly 5 hunger, 3
\* happiness and 2 energy when hunger >= 5, happiness >= 3 and energy >= 2;
\* and no update, whatever the elapsed time, takes more than 5, 3 and 2.
DecayCappedPerCall ==
    [][IsUpdate
         => /\ (elapsed' >= MsPerHour /\ hunger >= 5 /\ happiness >= 3
                                       /\ energy >= 2)
                  => /\ hunger' = hunger - 5
                     /\ happiness' = happiness - 3
                     /\ energy' = energy - 2
            /\ hunger - hunger' \in 0..5
            /\ happiness - happiness' \in 0..3
            /\ energy - energy' \in 0..2]_vars

\* C4 witness: a new pet after one update a whole day late: 45 / 47 / 98.
DecayCappedWitness ==
    /\ origin = "new"
    /\ calls = 1
    /\ lastOp = "update"
    /\ elapsed = MsPerDay
    /\ hunger = 45
    /\ happiness = 47
    /\ energy = 98

\* C5: after any recomputation the mood is one of the seven moods and is the
\* first matching rule of: health < 30 Sick; energy < 20 Sleeping; hunger < 30
\* or happiness < 30 Sad; hunger, happiness, energy > 70 Excited; hunger,
\* happiness > 70 Happy; happiness > 80 Playful; otherwise Neutral.
MoodFollowsPriorityList ==
    (origin = "loaded" \/ calls > 0) =>
        LET sick == health < 30
            sleeping == ~sick /\ energy < 20
            sad == ~sick /\ ~sleeping /\ (hunger < 30 \/ happiness < 30)
            excited == /\ ~sick /\ ~sleeping /\ ~sad
                       /\ hunger > 70 /\ happiness > 70 /\ energy > 70
            happy == /\ ~sick /\ ~sleeping /\ ~sad /\ ~excited
                     /\ hunger > 70 /\ happiness > 70
            playful == /\ ~sick /\ ~sleeping /\ ~sad /\ ~excited /\ ~happy
                       /\ happiness > 80
        IN  /\ mood \in Moods
            /\ (mood = "Sick") <=> sick
            /\ (mood = "Sleeping") <=> sleeping
            /\ (mood = "Sad") <=> sad
            /\ (mood = "Excited") <=> excited
            /\ (mood = "Happy") <=> happy
            /\ (mood = "Playful") <=> playful
            /\ (mood = "Neutral") <=>
                  ~(sick \/ sleeping \/ sad \/ excited \/ happy \/ playful)

\* C5 witness: an update left a pet with health < 30 and energy < 20, where
\* two rules match and the first one (Sick) is the one stored.
MoodPriorityWitness ==
    /\ lastOp = "update"
    /\ health < 30
    /\ energy < 20
    /\ hunger < 30
    /\ mood = "Sick"


\* C6: age is the number of whole days since creation: after any sequence of
\* update calls on a new pet whose elapsed intervals (none negative) sum to
\* T, age = floor(T / 24 h), however T is split across the calls.
AgeIsWholeDaysSinceCreation ==
    (origin = "new" /\ run.calls = calls /\ run.fwd)
        => age = run.span \div MsPerDay

\* C7: in an update, health loses exactly 5 (saturating at 0) if hunger < 20
\* or happiness < 20 after that call's decay, and is otherwise unchanged; a
\* pet with hunger 15 and happiness 15 updated after 1 hour ends with hunger
\* 10, happiness 12 and 5 health less.
HealthPenaltyAfterDecay ==
    [][IsUpdate
         => /\ health' = (IF hunger' < 20 \/ happiness' < 20
                           THEN (IF health >= 5 THEN health - 5 ELSE 0)
                           ELSE health)
            /\ (hunger = 15 /\ happiness = 15 /\ elapsed' = MsPerHour)
                  => /\ hunger' = 10
                     /\ happiness' = 12
                     /\ health' = (IF health >= 5 THEN health - 5 ELSE 0)]_vars

\* C7 witness: a saved pet with hunger 20 (no penalty yet) and health 30 was
\* updated after an hour: hunger fell to 15 and the penalty applied at once.
HealthPenaltyWitness ==
    /\ origin = "loaded"
    /\ calls = 1
    /\ lastOp = "update"
    /\ elapsed = MsPerHour
    /\ run.hunger = 20
    /\ run.happiness = 50
    /\ hunger = 15
    /\ health = 25

\* what one update call covering the whole run would have taken
SingleCallHunger == run.hunger - SaturatingSub(run.hunger, HungerDecrease(NumSeconds(run.span)))

SingleCallHappiness == run.happiness - SaturatingSub(run.happiness, HappinessDecrease(NumSeconds(run.span)))

SingleCallEnergy == run.energy - SaturatingSub(run.energy, EnergyDecrease(NumSeconds(run.span)))

\* C8 as stated: several consecutive update calls covering a time span never
\* take more hunger, happiness or energy than one call covering the span.
ManyCallsNeverDecayMore ==
    (run.calls >= 2 /\ run.fwd)
        => /\ run.hunger - hunger <= SingleCallHunger
           /\ run.happiness - happiness <= SingleCallHappiness
           /\ run.energy - energy <= SingleCallEnergy

\* C8 amended: several consecutive update calls (no interval negative)
\* covering a span of at most one hour never take more hunger, happiness or
\* energy than one call covering the span. Over a longer span the cap of
\* 5/3/2 applies to each call, and several calls can take more than one.
ManyCallsWithinAnHourNeverDecayMore ==
    (run.calls >= 2 /\ run.fwd /\ run.span <= MsPerHour)
        => /\ run.hunger - hunger <= SingleCallHunger
           /\ run.happiness - happiness <= SingleCallHappiness
           /\ run.energy - energy <= SingleCallEnergy

\* C8 witness: two half-hour updates took 4 hunger, 2 happiness, 2 energy
\* from a new pet, where one update after the hour takes 5, 3 and 2.
ManyCallsWitness ==
    /\ origin = "new"
    /\ run.calls = 2
    /\ run.span = MsPerHour
    /\ run.hunger - hunger = 4
    /\ run.happiness - happiness = 2
    /\ SingleCallHunger = 5
    /\ SingleCallHappiness = 3

\* C9: feed sets hunger to min(hunger + 30, 100) and energy to
\* min(energy + 5, 100), leaves happiness, health, age and last_updated
\* unchanged and recomputes mood; a new pet gets hunger 80, energy 100 and
\* mood Neutral.
FeedEffect ==
    [][lastOp' = "feed"
         => /\ hunger' = (IF hunger + 30 <= 100 THEN hunger + 30 ELSE 100)
            /\ energy' = (IF energy + 5 <= 100 THEN energy + 5 ELSE 100)
            /\ UNCHANGED <<happiness, health, age, last_updated>>
            /\ mood' = UpdateMood(hunger', happiness', energy', health')
            /\ lastOp = "new"
                  => (hunger' = 80 /\ energy' = 100 /\ mood' = "Neutral")]_vars

\* C9 witness: the new pet right after its first feed.
FeedWitness ==
    /\ origin = "new"
    /\ calls = 1
    /\ lastOp = "feed"
    /\ hunger = 80
    /\ energy = 100
    /\ mood = "Neutral"

\* C10: play sets happiness to min(happiness + 20, 100), hunger to
\* max(hunger - 10, 0) and energy to max(energy - 15, 0), leaves health, age
\* and last_updated unchanged and recomputes mood; it has no precondition on
\* the pet: it can be called whatever the energy or hunger.
PlayEffect ==
    /\ [](CanCall => ENABLED Play)
    /\ [][lastOp' = "play"
            => /\ happiness' = (IF happiness + 20 <= 100
                                 THEN happiness + 20 ELSE 100)
               /\ hunger' = (IF hunger - 10 >= 0 THEN hunger - 10 ELSE 0)
               /\ energy' = (IF energy - 15 >= 0 THEN energy - 15 ELSE 0)
               /\ UNCHANGED <<health, age, last_updated>>
               /\ mood' = UpdateMood(hunger', happiness', energy', health')]_vars

\* C10 witness: play applied to a saved pet whose energy was at most 1 and
\* whose hunger was at most 4: both end at 0, happiness at the cap.
PlayWitness ==
    /\ origin = "loaded"
    /\ calls = 1
    /\ lastOp = "play"
    /\ hunger = 0
    /\ energy = 0
    /\ happiness = MaxStat
    /\ health = 30
    /\ mood = "Sleeping"

\* C11: sleep sets energy to 100 and happiness to min(happiness + 5, 100),
\* leaves hunger, health, age and last_updated unchanged and recomputes mood;
\* the mood right after sleep is never Sleeping (with health < 30 it is Sick).
SleepEffect ==
    [][lastOp' = "sleep"
         => /\ energy' = 100
            /\ happiness' = (IF happiness + 5 <= 100 THEN happiness + 5 ELSE 100)
            /\ UNCHANGED <<hunger, health, age, last_updated>>
            /\ mood' = UpdateMood(hunger', happiness', energy', health')
            /\ mood' # "Sleeping"
            /\ health < 30 => mood' = "Sick"]_vars

\* C11 witness: sleep on a saved pet with health 25: energy 100, happiness
\* at the cap, mood Sick.
SleepWitness ==
    /\ origin = "loaded"
    /\ calls = 1
    /\ lastOp = "sleep"
    /\ energy = 100
    /\ happiness = 100
    /\ health = 25
    /\ mood = "Sick"

\* C12: heal sets health to 100, leaves hunger, happiness, energy, age and
\* last_updated unchanged and recomputes mood, so the mood right after heal
\* is not Sick.
HealEffect ==
    [][lastOp' = "heal"
         => /\ health' = 100
            /\ UNCHANGED <<hunger, happiness, energy, age, last_updated>>
            /\ mood' = UpdateMood(hunger', happiness', energy', health')
            /\ mood' # "Sick"]_vars

\* C12 witness: heal on a saved pet with hunger below 20 and energy 19:
\* health is 100 and the mood is that of the next matching rule, Sleeping.
HealWitness ==
    /\ origin = "loaded"
    /\ calls = 1
    /\ lastOp = "heal"
    /\ health = 100
    /\ hunger < 20
    /\ energy = 19
    /\ mood = "Sleeping"

\* C14: over any sequence of update, feed, play, sleep and heal the age
\* never decreases: the four actions leave it unchanged and update adds the
\* whole days of its elapsed time (none when the elapsed time is negative).
AgeNeverDecreases ==
    [][/\ age' >= age
       /\ lastOp' # "update" => age' = age
       /\ lastOp' = "update"
            => age' - age = (IF elapsed' >= 0 THEN elapsed' \div MsPerDay
                             ELSE 0)]_vars

\* C15: an update with negative elapsed time (now before last_updated)
\* changes neither hunger, happiness, energy nor age.
NegativeElapsedTakesNothing ==
    [][(IsUpdate /\ elapsed' < 0)
         => /\ hunger' = hunger
            /\ happiness' = happiness
            /\ energy' = energy
            /\ age' = age]_vars

\* C15 witness: a new pet after one update with the clock set back a day:
\* last_updated moved back, stats and age as created.
NegativeElapsedWitness ==
    /\ origin = "new"
    /\ calls = 1
    /\ lastOp = "update"
    /\ elapsed = 0 - MsPerDay
    /\ last_updated < 0
    /\ hunger = 50
    /\ happiness = 50
    /\ energy = 100
    /\ age = 0

\* C16: a newly created pet with the default values that is saved and then
\* loaded under the same name comes back identical in every field (name,
\* hunger, happiness, energy, health, age, last_updated, mood, character).
SaveLoadRoundTrip ==
    [][(/\ origin = "new" /\ lastOp = "save" /\ ret.ok
        /\ lastOp' = "load" /\ typed' = name /\ ret'.ok)
         => ThePet' = ThePet]_vars

\* C16 witness: the default pet created at instant 1234 is back in memory
\* from a load that followed its save.
SaveLoadWitness ==
    /\ lastOp = "load"
    /\ ret.ok
    /\ typed = name
    /\ calls = 2
    /\ origin = "loaded"
    /\ last_updated = 1234
    /\ hunger = 50 /\ happiness = 50 /\ energy = 100 /\ health = 100
    /\ age = 0
    /\ mood = "Happy"

\* the same letter, whatever the case
SameLetter(a, b) ==
    \/ a = b
    \/ {a, b} \in {{"R", "r"}, {"E", "e"}, {"X", "x"}, {"B", "b"}}

\* two names equal up to letter case
EqualUpToCase(m, n) ==
    /\ Len(m) = Len(n)
    /\ \A i \in 1..Len(m) : SameLetter(m[i], n[i])

\* C17: after a successful save of a pet named N, save_exists(M) is true and
\* load(M) returns that pet for every M equal to N up to letter case; the
\* save replaces the one file of that name, whatever it held and whatever
\* the case of the name it was saved under, and touches no other file, so
\* no two saves have names equal up to case.
SaveKeyedByLowercase ==
    /\ []((lastOp = "save" /\ ret.ok)
            => \A m \in Names :
                 EqualUpToCase(m, name)
                   => /\ SaveExists(m, "ok")
                      /\ LoadResult(m, "Blob", "ok").ok
                      /\ LoadResult(m, "Blob", "ok").pet = ThePet)
    /\ [](\A f, g \in Present : EqualUpToCase(f, g) => f = g)
    /\ [][(lastOp' = "save" /\ ret'.ok)
            => \A f \in FileStems :
                 ~EqualUpToCase(f, name) => files'[f] = files[f]]_vars

\* C17 witness: the pet REX was saved over rex.json, which held the save of
\* another pet or none; bo.json is still there.
SaveKeyWitness ==
    /\ lastOp = "save"
    /\ ret.ok
    /\ calls = 1
    /\ name = <<"R", "E", "X">>
    /\ files[<<"r", "e", "x">>].kind = "json"
    /\ files[<<"r", "e", "x">>].name = name
    /\ Present = {<<"r", "e", "x">>, <<"b", "o">>}

\* C18: whenever delete_all_nybblers returns successfully it has removed
\* every save, its value is the number of saves there were (0 when there
\* was none or the directory was missing), and save_exists is false for
\* every name afterwards.
DeleteAllSuccessRemovesAll ==
    [][(lastOp' = "delete_all" /\ ret'.ok)
         => /\ ret'.value = Cardinality(Present)
            /\ \A f \in FileStems : files'[f] = NoFile
            /\ \A m \in Names : ~SaveExists(m, "ok")']_vars

\* the steps of an iteration before the user's selection
BeforeAction == <<"update", "alive", "render">>

\* the loop is left
LeavesLoop == pc \in LoopPcs /\ pc' \notin LoopPcs

\* the liveness check found health 0 and the loop is left by its break
DiesNow == pc = "alive" /\ health = 0 /\ pc' = "dead"

\* the exit was confirmed: save, goodbye screen and break
ExitsNow == pc = "confirm" /\ lastOp' = "save" /\ pc' = "exited"

\* is_alive is false iff health is 0; a pet found dead after the decay gets
\* no further decay, action or save
DeathIsFinal ==
    /\ [](~IsAlive <=> health = 0)
    /\ [][(pc = "alive" /\ health = 0)
            => (pc' \in {"dead", "failed", "panicked"}
                /\ UNCHANGED <<petVars, files>>)]_vars
    /\ [][pc \notin {"dead", "failed", "panicked", "exited"}]_vars

\* C13 as stated: death after the decay ends the session at once, with no
\* further decay, action or save, and the loop otherwise ends only on a
\* confirmed exit.
LoopEndsByDeathOrExitOnly ==
    /\ DeathIsFinal
    /\ [][LeavesLoop => (DiesNow \/ ExitsNow)]_vars

\* C13: death after the decay ends the session at once, with no further
\* decay, action or save; the loop otherwise ends on a confirmed exit, or
\* on the error of a terminal call or the panic of a print, which end the
\* program with no save written unless the exit had been confirmed.
LoopEndsByDeathExitOrError ==
    /\ DeathIsFinal
    /\ [][LeavesLoop
            => \/ DiesNow
               \/ ExitsNow
               \/ /\ pc' \in {"failed", "panicked"}
                  /\ (files' = files \/ pc = "confirm")]_vars

\* C13 witness: the pet loaded from rex.json with health 5 died in the
\* first decay; the loop is left and rex.json is as it was.
DeathWitness ==
    /\ pc = "dead"
    /\ health = 0
    /\ origin = "loaded"
    /\ calls = 1
    /\ files[<<"r", "e", "x">>].kind = "json"
    /\ files[<<"r", "e", "x">>].health = 5

\* the pet Nybbler::new makes for the entered name
FreshPet ==
    /\ name = typed
    /\ hunger = 50
    /\ happiness = 50
    /\ energy = 100
    /\ health = 100
    /\ age = 0
    /\ origin = "new"

\* main stops before the loop: a prompt returned an error, or a println!
\* panicked on a stdout that cannot be written
TermStopped == pc' \in {"failed", "panicked"} /\ UNCHANGED <<petVars, origin>>

\* C19 as stated: at the start of a session a failed load of the existing
\* save never ends the session: the game loop is entered with a new pet of
\* the default values under the entered name; so it is when no save exists
\* and when the user declines to load.
LoadFailureNeverAborts ==
    [][pc = "named"
         => /\ (lastOp' = "load" /\ ~ret'.ok) => (pc' = "loop" /\ FreshPet')
            /\ lastOp' = "nosave" => (pc' = "loop" /\ FreshPet')
            /\ lastOp' = "decline" => (pc' = "loop" /\ FreshPet')]_vars

\* C19: at the start of a session, when a save exists for the entered name
\* and loading it fails, the failure is not what ends the program: the game
\* loop is entered with a new pet of the default values under that name,
\* unless the println! of the failure cannot write to stdout and panics
\* before a pet is bound. When no save exists the loop is entered with the
\* same new pet; when the user declines to load as well, unless the prompt
\* returns an error or the println! of that branch panics.
LoadFailureGivesFreshPet ==
    [][pc = "named"
         => /\ (lastOp' = "load" /\ ~ret'.ok)
                  => \/ pc' = "loop" /\ FreshPet'
                     \/ pc' = "panicked" /\ TermStopped
            /\ lastOp' = "nosave" => (pc' = "loop" /\ FreshPet')
            /\ lastOp' = "decline"
                  => \/ pc' = "loop" /\ FreshPet'
                     \/ TermStopped]_vars

\* C19 witness: rex.json is undecodable, the load of REX failed and the
\* loop is about to start with a new pet named REX.
LoadFailureWitness ==
    /\ pc = "loop"
    /\ lastOp = "load"
    /\ ~ret.ok
    /\ typed = <<"R", "E", "X">>
    /\ files[SavePath(typed)].kind = "corrupt"
    /\ FreshPet

\* C20: in an iteration the order is decay, liveness check, render, one
\* action or the exit; one decay and one liveness check precede the render
\* and the action, and at the render the mood is the classifier of the
\* stats, for a new and for a loaded pet as well.
LoopOrder ==
    /\ [](pc = "alive" => iter = <<"update">>)
    /\ [](pc = "render" => iter = <<"update", "alive">>)
    /\ [](pc = "select" => iter = BeforeAction)
    /\ [](pc \in {"render", "select"}
            => mood = UpdateMood(hunger, happiness, energy, health))
    /\ [][(lastOp' \in {"feed", "play", "sleep", "heal"} \/ pc' = "confirm")
            => (pc = "select" /\ iter = BeforeAction)]_vars

\* C20 witness: the first render of a new pet is done: one call, the decay,
\* came before it and the mood is no longer the Happy of Nybbler::new.
LoopOrderWitness ==
    /\ pc = "select"
    /\ origin = "new"
    /\ calls = 1
    /\ iter = BeforeAction
    /\ hunger = 50 /\ happiness = 50
    /\ mood = "Neutral"

\* the file a save of the pet in memory is written to
OwnSave == files[SavePath(name)]

\* C21: the game loop writes a save only on a confirmed exit, which comes
\* after the decay, the liveness check and the render of that iteration;
\* nothing between the liveness check and the save lowers health, and the
\* pet written has health above 0 and the mood the classifier gives for
\* the stats written. (A save that fails in the write returns an error and
\* leaves a file that cannot be decoded, which holds no pet.)
LoopSavesLivePet ==
    /\ [][(pc \in LoopPcs /\ files' # files)
            => /\ pc = "confirm"
               /\ lastOp' = "save"
               /\ iter = Append(BeforeAction, "exit")
               /\ \A f \in FileStems : f # SavePath(name) => files'[f] = files[f]
               /\ IF ret'.ok
                  THEN /\ OwnSave'.kind = "json"
                       /\ OwnSave'.health > 0
                       /\ OwnSave'.mood = UpdateMood(OwnSave'.hunger,
                                                     OwnSave'.happiness,
                                                     OwnSave'.energy,
                                                     OwnSave'.health)
                  ELSE OwnSave'.kind = "corrupt"]_vars
    /\ [][(pc \in {"render", "select", "confirm"}) => (health' >= health)]_vars
    /\ [](pc \in {"render", "select", "confirm"} => health > 0)

\* C21 witness: a loaded pet lost health in the decay, the exit was
\* confirmed and the save written holds its health and mood.
LoopSaveWitness ==
    /\ pc = "exited"
    /\ lastOp = "save"
    /\ ret.ok
    /\ origin = "loaded"
    /\ OwnSave.kind = "json"
    /\ OwnSave.name = name
    /\ OwnSave.health = health
    /\ health = 25
    /\ OwnSave.mood = mood

====
